---- MODULE Spec2Model ----
(***************************************************************************)
(* Model of svmlight_named2indexed.py (Python 2.7): the Indexer class, the *)
(* svmlight line codec, the streaming conversion generateIndexedData and   *)
(* main.  Text is modelled as sequences of one-character strings, so that  *)
(* parsing and formatting are computed, not assumed.                       *)
(***************************************************************************)
EXTENDS Integers, Sequences, FiniteSets, TLC

\* ---------------------------------------------------------------- bounds
MaxLines == 2     \* lines in the input file
MaxTokens == 2    \* feature tokens in a generated data line
MaxPairs == 2     \* pairs in a list given to getIndicesForFeatureList
MaxArgs == 4      \* positional command line arguments

\* ------------------------------------------------- Python values and text
\* Python's None, kept a sequence so that it compares with any text.
None == <<"NoneType">>

\* str.strip() without argument removes ASCII whitespace.
Whitespace == {" ", "\t", "\n", "\r"}

\* Characters of the model in ASCII order (str comparison is by ord()).
Ascii == <<"\t", "\n", "\r", " ", "#", "0", "1", "2", "3", "4", "5", "6", "7",
           "8", "9", ":", "N", "a", "b", "c", "d", "e", "i", "n", "o", "q",
           "x", "y", "z">>

ord(c) == CHOOSE i \in 1..Len(Ascii) : Ascii[i] = c

RECURSIVE StrLess(_, _)
StrLess(s, t) ==
    IF t = <<>> THEN FALSE
    ELSE IF s = <<>> THEN TRUE
    ELSE IF Head(s) # Head(t) THEN ord(Head(s)) < ord(Head(t))
    ELSE StrLess(Tail(s), Tail(t))

RECURSIVE lstrip(_)
lstrip(s) == IF s # <<>> /\ Head(s) \in Whitespace THEN lstrip(Tail(s)) ELSE s

RECURSIVE rstrip(_)
rstrip(s) ==
    IF s # <<>> /\ s[Len(s)] \in Whitespace
    THEN rstrip(SubSeq(s, 1, Len(s) - 1)) ELSE s

strip(s) == rstrip(lstrip(s))

\* c in s
In(c, s) == \E i \in 1..Len(s) : s[i] = c

find(s, c) == CHOOSE i \in 1..Len(s) : s[i] = c /\ \A j \in 1..(i - 1) : s[j] # c

\* s.split(c), also s.rsplit(c): without maxsplit both cut at every c.
RECURSIVE split(_, _)
split(s, c) ==
    IF ~In(c, s) THEN <<s>>
    ELSE LET i == find(s, c)
         IN <<SubSeq(s, 1, i - 1)>> \o split(SubSeq(s, i + 1, Len(s)), c)

\* s.split(c, 1) for an s that contains c
split1(s, c) ==
    LET i == find(s, c) IN <<SubSeq(s, 1, i - 1), SubSeq(s, i + 1, Len(s))>>

RECURSIVE join(_, _)
join(sep, parts) ==
    IF parts = <<>> THEN <<>>
    ELSE IF Len(parts) = 1 THEN parts[1]
    ELSE parts[1] \o sep \o join(sep, Tail(parts))

startswith(s, c) == s # <<>> /\ Head(s) = c

Digits == <<"0", "1", "2", "3", "4", "5", "6", "7", "8", "9">>

\* '{0}'.format(n) for an int n >= 0
RECURSIVE str(_)
str(n) == IF n < 10 THEN <<Digits[n + 1]>>
          ELSE str(n \div 10) \o <<Digits[(n % 10) + 1]>>

\* '{0}'.format(x) for x a str or None
format(x) == IF x = None THEN <<"N", "o", "n", "e">> ELSE x

\* A value returned by getIndex4Feature: an int index or the str it was given.
IntRef(n) == [kind |-> "int", n |-> n, s |-> <<>>]
StrRef(s) == [kind |-> "str", n |-> 0, s |-> s]

formatRef(r) == IF r.kind = "int" THEN str(r.n) ELSE r.s

qid == <<"q", "i", "d">>

\* ---------------------------------------------------------------- Indexer
\* self is [knownFeatures, string2index, nextIndex, mappingWriter] together
\* with mappingText, the content of the file mappingWriter writes to.
Indexer_init ==
    [knownFeatures |-> <<>>,
     string2index  |-> [x \in {} |-> 0],
     nextIndex     |-> 1,
     mappingWriter |-> "None",
     mappingText   |-> <<>>]

\* _addIndex2NameMapping that writes nothing
_addIndex2NameMapping_nothing(text, index, name) == text

\* writer.write('{0} {1}\n'.format(index, name))
_addIndex2NameMapping(text, index, name) ==
    text \o str(index) \o <<" ">> \o name \o <<"\n">>

\* getIndex4Feature whose lookup of a known feature advances nextIndex
getIndex4Feature_countKnown(self, feature) ==
    IF feature = qid
    THEN [self |-> self, ret |-> StrRef(feature)]
    ELSE IF feature \in DOMAIN self.string2index
    THEN [self |-> [self EXCEPT !.nextIndex = @ + 1],
          ret |-> IntRef(self.string2index[feature])]
    ELSE LET featureIndex == self.nextIndex
             s1 == [self EXCEPT !.knownFeatures = Append(@, feature),
                                !.string2index = @ @@ (feature :> featureIndex),
                                !.nextIndex = @ + 1]
             s2 == IF s1.mappingWriter # "None"
                   THEN [s1 EXCEPT !.mappingText =
                            _addIndex2NameMapping(@, featureIndex, feature)]
                   ELSE s1
         IN [self |-> s2, ret |-> IntRef(featureIndex)]

\* getIndex4Feature that keeps only the new name in string2index
getIndex4Feature_forget(self, feature) ==
    IF feature = qid
    THEN [self |-> self, ret |-> StrRef(feature)]
    ELSE IF feature \in DOMAIN self.string2index
    THEN [self |-> self, ret |-> IntRef(self.string2index[feature])]
    ELSE LET featureIndex == self.nextIndex
             s1 == [self EXCEPT !.knownFeatures = Append(@, feature),
                                !.string2index = (feature :> featureIndex),
                                !.nextIndex = @ + 1]
             s2 == IF s1.mappingWriter # "None"
                   THEN [s1 EXCEPT !.mappingText =
                            _addIndex2NameMapping(@, featureIndex, feature)]
                   ELSE s1
         IN [self |-> s2, ret |-> IntRef(featureIndex)]

\* getIndex4Feature without the branch for a known feature
getIndex4Feature_reassign(self, feature) ==
    IF feature = qid
    THEN [self |-> self, ret |-> StrRef(feature)]
    ELSE LET featureIndex == self.nextIndex
             s1 == [self EXCEPT !.knownFeatures = Append(@, feature),
                                !.string2index =
                                    [n \in DOMAIN @ \cup {feature} |->
                                        IF n = feature THEN featureIndex ELSE @[n]],
                                !.nextIndex = @ + 1]
             s2 == IF s1.mappingWriter # "None"
                   THEN [s1 EXCEPT !.mappingText =
                            _addIndex2NameMapping(@, featureIndex, feature)]
                   ELSE s1
         IN [self |-> s2, ret |-> IntRef(featureIndex)]

\* getIndex4Feature without the branch for qid
getIndex4Feature_noQid(self, feature) ==
    IF feature \in DOMAIN self.string2index
    THEN [self |-> self, ret |-> IntRef(self.string2index[feature])]
    ELSE LET featureIndex == self.nextIndex
             s1 == [self EXCEPT !.knownFeatures = Append(@, feature),
                                !.string2index = @ @@ (feature :> featureIndex),
                                !.nextIndex = @ + 1]
             s2 == IF s1.mappingWriter # "None"
                   THEN [s1 EXCEPT !.mappingText =
                            _addIndex2NameMapping(@, featureIndex, feature)]
                   ELSE s1
         IN [self |-> s2, ret |-> IntRef(featureIndex)]

getIndex4Feature(self, feature) ==
    IF feature = qid
    THEN [self |-> self, ret |-> StrRef(feature)]
    ELSE IF feature \in DOMAIN self.string2index
    THEN [self |-> self, ret |-> IntRef(self.string2index[feature])]
    ELSE LET featureIndex == self.nextIndex
             s1 == [self EXCEPT !.knownFeatures = Append(@, feature),
                                !.string2index = @ @@ (feature :> featureIndex),
                                !.nextIndex = @ + 1]
             s2 == IF s1.mappingWriter # "None"
                   THEN [s1 EXCEPT !.mappingText =
                            _addIndex2NameMapping(@, featureIndex, feature)]
                   ELSE s1
         IN [self |-> s2, ret |-> IntRef(featureIndex)]

\* Python 2 ordering of the values getIndex4Feature returns: ints by value,
\* every int before every str, strs by character codes.
RefLess(a, b) ==
    IF a.kind = "int" /\ b.kind = "int" THEN a.n < b.n
    ELSE IF a.kind = "int" THEN TRUE
    ELSE IF b.kind = "int" THEN FALSE
    ELSE StrLess(a.s, b.s)

\* (feature, value) tuples compare lexicographically
TupleLess(p, q) ==
    IF p[1] # q[1] THEN RefLess(p[1], q[1]) ELSE StrLess(p[2], q[2])

RECURSIVE insertSorted(_, _)
insertSorted(p, sorted) ==
    IF sorted = <<>> THEN <<p>>
    ELSE IF TupleLess(p, Head(sorted)) THEN <<p>> \o sorted
    ELSE <<Head(sorted)>> \o insertSorted(p, Tail(sorted))

\* a list that is left as it was built
sort_none(l) == l

\* list.sort(): stable, ascending
RECURSIVE sort(_)
sort(l) == IF l = <<>> THEN <<>>
           ELSE insertSorted(l[Len(l)], sort(SubSeq(l, 1, Len(l) - 1)))

\* the for loop of getIndicesForFeatureList, never adding to usedIndices
RECURSIVE forFeatureValuePairs_noAdd(_, _, _, _)
forFeatureValuePairs_noAdd(self, featureValuePairs, indexedFeatures, usedIndices) ==
    IF featureValuePairs = <<>>
    THEN [self |-> self, raised |-> "None", ret |-> sort(indexedFeatures)]
    ELSE LET namedFeature == featureValuePairs[1][1]
             value == featureValuePairs[1][2]
             r == getIndex4Feature(self, namedFeature)
         IN IF r.ret \in usedIndices
            THEN [self |-> r.self, raised |-> "ValueError: Duplicate feature",
                  ret |-> <<>>]
            ELSE forFeatureValuePairs_noAdd(r.self, Tail(featureValuePairs),
                                            Append(indexedFeatures, <<r.ret, value>>),
                                            usedIndices)

\* the for loop of getIndicesForFeatureList
RECURSIVE forFeatureValuePairs(_, _, _, _)
forFeatureValuePairs(self, featureValuePairs, indexedFeatures, usedIndices) ==
    IF featureValuePairs = <<>>
    THEN [self |-> self, raised |-> "None", ret |-> sort(indexedFeatures)]
    ELSE LET namedFeature == featureValuePairs[1][1]
             value == featureValuePairs[1][2]
             r == getIndex4Feature(self, namedFeature)
         IN IF r.ret \in usedIndices
            THEN [self |-> r.self, raised |-> "ValueError: Duplicate feature",
                  ret |-> <<>>]
            ELSE forFeatureValuePairs(r.self, Tail(featureValuePairs),
                                      Append(indexedFeatures, <<r.ret, value>>),
                                      usedIndices \cup {r.ret})

\* getIndicesForFeatureList that restores the Indexer when it raises
getIndicesForFeatureList_rollback(self, featureValuePairs) ==
    LET r == forFeatureValuePairs(self, featureValuePairs, <<>>, {})
    IN IF r.raised # "None" THEN [r EXCEPT !.self = self] ELSE r

\* getIndicesForFeatureList going through the pairs from the last to the first
getIndicesForFeatureList_reversed(self, featureValuePairs) ==
    forFeatureValuePairs(self,
                         [i \in 1..Len(featureValuePairs) |->
                             featureValuePairs[Len(featureValuePairs) + 1 - i]],
                         <<>>, {})

getIndicesForFeatureList(self, featureValuePairs) ==
    forFeatureValuePairs(self, featureValuePairs, <<>>, {})

\* the for loop of _saveIndex2NameMapping over enumerate(knownFeatures)
RECURSIVE writeAllMappings(_, _, _)
writeAllMappings(text, knownFeatures, i) ==
    IF i >= Len(knownFeatures) THEN text
    ELSE writeAllMappings(_addIndex2NameMapping(text, i + 1, knownFeatures[i + 1]),
                          knownFeatures, i + 1)

\* saveIndex2NameMapping(filename): open(filename, 'w') truncates the file
saveIndex2NameMapping(self) == writeAllMappings(<<>>, self.knownFeatures, 0)

\* activation that opens the file and writes none of the known names
activateIndex2NameMappingLiveWriting_noSave(self, filenameGiven) ==
    IF filenameGiven
    THEN [self EXCEPT !.mappingWriter = "open", !.mappingText = <<>>]
    ELSE self

activateIndex2NameMappingLiveWriting(self, filenameGiven) ==
    IF filenameGiven
    THEN [self EXCEPT !.mappingWriter = "open",
                      !.mappingText = IF Len(self.knownFeatures) > 0
                                      THEN writeAllMappings(<<>>, self.knownFeatures, 0)
                                      ELSE <<>>]
    ELSE self

deactivateIndex2NameMappingLiveWriting(self) ==
    IF self.mappingWriter # "None"
    THEN [self EXCEPT !.mappingWriter = "None"]
    ELSE self

\* ------------------------------------------------------------- line codec
\* the features with every token cut at each of its ':'
RECURSIVE featuresOf_everyColon(_)
featuresOf_everyColon(elems) ==
    IF elems = <<>> THEN <<>>
    ELSE IF In(":", Head(elems))
    THEN << <<split(Head(elems), ":")[1], split(Head(elems), ":")[2]>> >>
             \o featuresOf_everyColon(Tail(elems))
    ELSE featuresOf_everyColon(Tail(elems))

RECURSIVE featuresOf(_)
featuresOf(elems) ==
    IF elems = <<>> THEN <<>>
    ELSE IF In(":", Head(elems))
    THEN <<split1(Head(elems), ":")>> \o featuresOf(Tail(elems))
    ELSE featuresOf(Tail(elems))

\* _parseDataLine that does not put the '#' back in front of the info
_parseDataLine_noHash(line) ==
    LET parts == split(line, "#")
        hasInfo == In("#", line)
    IN IF hasInfo /\ Len(parts) # 2
       THEN [raised |-> "ValueError: too many values to unpack",
             target |-> <<>>, features |-> <<>>, info |-> None]
       ELSE LET line2 == IF hasInfo THEN parts[1] ELSE line
                info == IF hasInfo THEN parts[2] ELSE None
                elems == split(line2, " ")
            IN [raised |-> "None",
                target |-> elems[1],
                features |-> featuresOf(Tail(elems)),
                info |-> info]

\* _parseDataLine for a line of length > 0 (the only way it is called)
_parseDataLine(line) ==
    LET parts == split(line, "#")
        hasInfo == In("#", line)
    IN IF hasInfo /\ Len(parts) # 2
       THEN [raised |-> "ValueError: too many values to unpack",
             target |-> <<>>, features |-> <<>>, info |-> None]
       ELSE LET line2 == IF hasInfo THEN parts[1] ELSE line
                info == IF hasInfo THEN <<"#">> \o parts[2] ELSE None
                elems == split(line2, " ")
            IN [raised |-> "None",
                target |-> elems[1],
                features |-> featuresOf(Tail(elems)),
                info |-> info]

RECURSIVE featureTexts(_)
featureTexts(features) ==
    IF features = <<>> THEN <<>>
    ELSE <<formatRef(features[1][1]) \o <<":">> \o features[1][2]>>
         \o featureTexts(Tail(features))

\* the line _writeSVMLightData_DataItem writes
_writeSVMLightData_DataItem(target, features, info) ==
    target \o <<" ">> \o join(<<" ">>, featureTexts(features))
           \o <<" ">> \o format(info) \o <<"\n">>

\* _writeSVMLightData_Comment without the newline
_writeSVMLightData_Comment_noNewline(comment) ==
    IF comment # None THEN comment ELSE <<>>

\* what _writeSVMLightData_Comment writes
_writeSVMLightData_Comment(comment) ==
    IF comment # None THEN comment \o <<"\n">> ELSE <<>>

\* The next line a file iterator returns: up to and including the first "\n"
readline(text) == IF In("\n", text) THEN SubSeq(text, 1, find(text, "\n")) ELSE text

\* What loadSVMLightDataIter does with a trimmed line of length > 0: the
\* tuple (DATAITEM, COMMENT) it yields, or the exception _parseDataLine raises.
loadSVMLightDataIter_yield(line) ==
    IF startswith(line, "#")
    THEN [raised |-> "None", dataitem |-> None, comment |-> line]
    ELSE LET item == _parseDataLine(line)
         IN IF item.raised # "None"
            THEN [raised |-> item.raised, dataitem |-> None, comment |-> None]
            ELSE [raised |-> "None",
                  dataitem |-> <<item.target, item.features, item.info>>,
                  comment |-> None]

\* ------------------------------------------------------------------ state
VARIABLES
    pc,             \* position of the program
    nargs,          \* len(args) in main, after getopt removed the options
    inputExists,    \* whether open(inputFile) succeeds
    inputFile,      \* content of the input file
    f,              \* unread rest of the input file
    outputText,     \* content of the output file
    mappingFile,    \* generateIndexedData's argument: "None" or "given"
    knownFeatures,  \* Indexer.knownFeatures
    string2index,   \* Indexer.string2index
    nextIndex,      \* Indexer.nextIndex
    mappingWriter,  \* Indexer.mappingWriter: "None" or "open"
    mappingText,    \* content of the file behind mappingWriter
    savedMapping,   \* content of the file saveIndex2NameMapping wrote
    raised,         \* the exception that ended the run or the last call
    run,            \* 1 for the conversion, 2 for a conversion of its output
    lastCall,       \* the last method call made on the Indexer
    seen,           \* the distinct names the Indexer was asked for, in order
    retIndex,       \* what the last call returned, if getIndex4Feature
    retList,        \* what the last call returned, if getIndicesForFeatureList
    yielded,        \* the elements loadSVMLightDataIter has yielded to loadSVMLightData
    data,           \* loadSVMLightData's list data
    comments,       \* loadSVMLightData's list comments
    indexedData,    \* the list convertName2Index returned
    index2string,   \* the dict convertName2Index returned
    batchText       \* content of the file writeSVMLightData wrote

vars == <<pc, nargs, inputExists, inputFile, f, outputText, mappingFile,
          knownFeatures, string2index, nextIndex, mappingWriter, mappingText,
          savedMapping, raised, run, lastCall, seen, retIndex, retList,
          yielded, data, comments, indexedData, index2string, batchText>>

indexerVars == <<knownFeatures, string2index, nextIndex, mappingWriter, mappingText>>
apiVars == <<savedMapping, lastCall, seen, retIndex, retList>>
batchVars == <<yielded, data, comments, indexedData, index2string, batchText>>

Self == [knownFeatures |-> knownFeatures,
         string2index  |-> string2index,
         nextIndex     |-> nextIndex,
         mappingWriter |-> mappingWriter,
         mappingText   |-> mappingText]

SetSelf(s) ==
    /\ knownFeatures' = s.knownFeatures
    /\ string2index' = s.string2index
    /\ nextIndex' = s.nextIndex
    /\ mappingWriter' = s.mappingWriter
    /\ mappingText' = s.mappingText

\* ----------------------------------------------------------------- inputs
Target == <<"1">>

Tokens == { <<"a", ":", "5">>, <<"b", ":", "7">> }

TokenSeqs == UNION { [1..k -> Tokens] : k \in 0..MaxTokens }

RECURSIVE spaced(_)
spaced(toks) == IF toks = <<>> THEN <<>>
                ELSE <<" ">> \o Head(toks) \o spaced(Tail(toks))

DataLines == { Target \o spaced(toks) : toks \in TokenSeqs }

OtherLines == {
    <<>>,                                                      \* blank
    <<"#", "c">>,                                              \* comment
    <<" ", "#", "c", " ">>,                                    \* comment in spaces
    <<"2", " ", "b", ":", "7", " ", "#", "x">>,                \* info
    <<"3", " ", "q", "i", "d", ":", "3", " ", "a", ":", "5">>, \* qid first
    <<"3", " ", "q", "i", "d", ":", "3", " ", "q", "i", "d", ":", "4">>,
    <<"2", " ", "z", " ", " ", "a", ":", "5", ":", "5", " ">>, \* no ':', ':' in value
    <<"1", " ", "a", ":", "5", " ", "#", "x", "#", "y">>,      \* two '#'
    <<"1", " ", "a", ":", "5", " ", "a", ":", "5", " ", "b", ":", "7">>
                                                               \* repeat, then b
    }

\* every line ends with a newline, but for one that can end the file
Lines == { l \o <<"\n">> : l \in DataLines \cup OtherLines }
         \cup { <<"2", " ", "b", ":", "7">> }

RECURSIVE concat(_)
concat(ls) == IF ls = <<>> THEN <<>> ELSE Head(ls) \o concat(Tail(ls))

Files == { concat(ls) : ls \in UNION { [1..k -> Lines] : k \in 0..MaxLines } }

\* ------------------------------------------------------------------- main
\* the condition of main's if: a chained comparison, 2 > n and n > 3
usageCondition(n) == 2 > n /\ n > 3

Call(op, name, pairs) == [op |-> op, name |-> name, pairs |-> pairs]

NoCall == Call("None", <<>>, <<>>)

\* what does not depend on how the program is entered
InitCommon ==
    /\ f = <<>>
    /\ outputText = <<>>
    /\ knownFeatures = Indexer_init.knownFeatures
    /\ string2index = Indexer_init.string2index
    /\ nextIndex = Indexer_init.nextIndex
    /\ mappingWriter = Indexer_init.mappingWriter
    /\ mappingText = Indexer_init.mappingText
    /\ savedMapping = <<>>
    /\ raised = "None"
    /\ run = 1
    /\ lastCall = NoCall
    /\ seen = <<>>
    /\ retIndex = IntRef(0)
    /\ retList = <<>>
    /\ yielded = <<>>
    /\ data = <<>>
    /\ comments = <<>>
    /\ indexedData = <<>>
    /\ index2string = <<>>
    /\ batchText = <<>>

\* generateIndexedData(inputFile, outputFile, mappingFile) is called
Init ==
    /\ pc = "generateIndexedData"
    /\ nargs = 0
    /\ inputExists \in BOOLEAN
    /\ inputFile \in (IF inputExists THEN Files ELSE {<<>>})
    /\ mappingFile \in {"None", "given"}
    /\ InitCommon

\* main(sys.argv) is called; the input file has one line at most
InitMain ==
    /\ pc = "main"
    /\ nargs \in 0..MaxArgs
    /\ inputExists \in BOOLEAN
    /\ inputFile \in (IF inputExists THEN Lines \cup {<<>>} ELSE {<<>>})
    /\ mappingFile = "None"
    /\ InitCommon

main ==
    /\ pc = "main"
    /\ IF usageCondition(nargs)
       THEN pc' = "usage" /\ UNCHANGED <<mappingFile, raised>>
       ELSE IF nargs < 2
       THEN \* args[0] or args[1] does not exist
            pc' = "failed" /\ raised' = "IndexError" /\ UNCHANGED mappingFile
       ELSE /\ pc' = "generateIndexedData"
            /\ mappingFile' = (IF nargs > 2 THEN "given" ELSE "None")
            /\ UNCHANGED raised
    /\ UNCHANGED <<nargs, inputExists, inputFile, f, outputText, run>>
    /\ UNCHANGED indexerVars
    /\ UNCHANGED apiVars
    /\ UNCHANGED batchVars

\* ---------------------------------------------------- generateIndexedData
\* Indexer(), the activation of live mapping, open(outputFile, 'w') and the
\* start of the generator, which opens the input file.
generateIndexedData_begin ==
    /\ pc = "generateIndexedData"
    /\ SetSelf(activateIndex2NameMappingLiveWriting(Indexer_init,
                                                    mappingFile # "None"))
    /\ outputText' = <<>>
    /\ IF inputExists
       THEN pc' = "loop" /\ f' = inputFile /\ raised' = "None"
       ELSE pc' = "failed" /\ f' = <<>> /\ raised' = "IOError"
    /\ UNCHANGED <<nargs, inputExists, inputFile, mappingFile, run>>
    /\ UNCHANGED apiVars
    /\ UNCHANGED batchVars

\* one iteration of the for loop over loadSVMLightDataIter(inputFile); a
\* blank line is passed over inside the generator
generateIndexedData_line ==
    /\ pc = "loop"
    /\ f # <<>>
    /\ LET raw == readline(f)
           line == strip(raw)
       IN /\ f' = SubSeq(f, Len(raw) + 1, Len(f))
          /\ IF Len(line) = 0
             THEN UNCHANGED <<pc, outputText, raised>> /\ UNCHANGED indexerVars
             ELSE LET y == loadSVMLightDataIter_yield(line)
                      written == IF y.comment # None
                                 THEN outputText \o _writeSVMLightData_Comment(y.comment)
                                 ELSE outputText
                  IN IF y.raised # "None"
                     THEN /\ pc' = "failed"
                          /\ raised' = y.raised
                          /\ UNCHANGED outputText
                          /\ UNCHANGED indexerVars
                     ELSE IF y.dataitem = None
                     THEN /\ outputText' = written
                          /\ UNCHANGED <<pc, raised>>
                          /\ UNCHANGED indexerVars
                     ELSE LET r == getIndicesForFeatureList(Self, y.dataitem[2])
                          IN /\ SetSelf(r.self)
                             /\ IF r.raised # "None"
                                THEN /\ pc' = "failed"
                                     /\ raised' = r.raised
                                     /\ outputText' = written
                                ELSE /\ outputText' = written \o
                                            _writeSVMLightData_DataItem(
                                                y.dataitem[1], r.ret, y.dataitem[3])
                                     /\ UNCHANGED <<pc, raised>>
    /\ UNCHANGED <<nargs, inputExists, inputFile, mappingFile, run>>
    /\ UNCHANGED apiVars
    /\ UNCHANGED batchVars

\* the loop is exhausted: the output is closed, live mapping is deactivated
generateIndexedData_end ==
    /\ pc = "loop"
    /\ f = <<>>
    /\ pc' = "done"
    /\ SetSelf(IF mappingFile # "None"
               THEN deactivateIndex2NameMappingLiveWriting(Self)
               ELSE Self)
    /\ UNCHANGED <<nargs, inputExists, inputFile, f, outputText, mappingFile,
                   raised, run>>
    /\ UNCHANGED apiVars
    /\ UNCHANGED batchVars

Next ==
    \/ generateIndexedData_begin
    \/ generateIndexedData_line
    \/ generateIndexedData_end

Spec == Init /\ [][Next]_vars

NextMain == main \/ Next

SpecMain == InitMain /\ [][NextMain]_vars

\* --------------------------------------------------- the Indexer's methods
\* A fresh Indexer used through its public methods, in any order.
Names == { <<"a">>, <<"b">>, qid }

Values == { <<"5">> }

PairLists == UNION { [1..k -> Names \X Values] : k \in 0..MaxPairs }

InitIndexer ==
    /\ pc = "api"
    /\ nargs = 0
    /\ inputExists = FALSE
    /\ inputFile = <<>>
    /\ mappingFile = "None"
    /\ InitCommon

streamVars == <<pc, nargs, inputExists, inputFile, f, outputText, mappingFile, run>>

\* the names of a list that are looked up: all of them, or those up to and
\* including the first repeated one, where the loop raises
lookedUp(names) ==
    IF \A i, j \in 1..Len(names) : i < j => names[i] # names[j] THEN names
    ELSE SubSeq(names, 1,
                CHOOSE j \in 1..Len(names) :
                    /\ \E i \in 1..(j - 1) : names[i] = names[j]
                    /\ \A k, l \in 1..(j - 1) : k < l => names[k] # names[l])

RECURSIVE addSeen(_, _)
addSeen(sn, names) ==
    IF names = <<>> THEN sn
    ELSE addSeen(IF \E i \in 1..Len(sn) : sn[i] = Head(names)
                 THEN sn ELSE Append(sn, Head(names)),
                 Tail(names))

Indexer_getIndex4Feature(feature) ==
    /\ pc = "api"
    /\ LET r == getIndex4Feature(Self, feature)
       IN SetSelf(r.self) /\ retIndex' = r.ret
    /\ retList' = <<>>
    /\ raised' = "None"
    /\ lastCall' = Call("getIndex4Feature", feature, <<>>)
    /\ seen' = addSeen(seen, <<feature>>)
    /\ UNCHANGED savedMapping
    /\ UNCHANGED streamVars
    /\ UNCHANGED batchVars

Indexer_getIndicesForFeatureList(featureValuePairs) ==
    /\ pc = "api"
    /\ LET r == getIndicesForFeatureList(Self, featureValuePairs)
       IN SetSelf(r.self) /\ retList' = r.ret /\ raised' = r.raised
    /\ retIndex' = IntRef(0)
    /\ lastCall' = Call("getIndicesForFeatureList", <<>>, featureValuePairs)
    /\ seen' = addSeen(seen, lookedUp([i \in 1..Len(featureValuePairs) |->
                                          featureValuePairs[i][1]]))
    /\ UNCHANGED savedMapping
    /\ UNCHANGED streamVars
    /\ UNCHANGED batchVars

Indexer_saveIndex2NameMapping ==
    /\ pc = "api"
    /\ savedMapping' = saveIndex2NameMapping(Self)
    /\ raised' = "None"
    /\ lastCall' = Call("saveIndex2NameMapping", <<>>, <<>>)
    /\ retIndex' = IntRef(0) /\ retList' = <<>>
    /\ UNCHANGED seen
    /\ UNCHANGED indexerVars
    /\ UNCHANGED streamVars
    /\ UNCHANGED batchVars

Indexer_activateIndex2NameMappingLiveWriting(filenameGiven) ==
    /\ pc = "api"
    /\ SetSelf(activateIndex2NameMappingLiveWriting(Self, filenameGiven))
    /\ raised' = "None"
    /\ lastCall' = Call("activateIndex2NameMappingLiveWriting", <<>>, <<>>)
    /\ retIndex' = IntRef(0) /\ retList' = <<>>
    /\ UNCHANGED <<savedMapping, seen>>
    /\ UNCHANGED streamVars
    /\ UNCHANGED batchVars

Indexer_deactivateIndex2NameMappingLiveWriting ==
    /\ pc = "api"
    /\ SetSelf(deactivateIndex2NameMappingLiveWriting(Self))
    /\ raised' = "None"
    /\ lastCall' = Call("deactivateIndex2NameMappingLiveWriting", <<>>, <<>>)
    /\ retIndex' = IntRef(0) /\ retList' = <<>>
    /\ UNCHANGED <<savedMapping, seen>>
    /\ UNCHANGED streamVars
    /\ UNCHANGED batchVars

NextIndexer ==
    \/ \E feature \in Names : Indexer_getIndex4Feature(feature)
    \/ \E featureValuePairs \in PairLists :
           Indexer_getIndicesForFeatureList(featureValuePairs)
    \/ Indexer_saveIndex2NameMapping
    \/ \E filenameGiven \in BOOLEAN :
           Indexer_activateIndex2NameMappingLiveWriting(filenameGiven)
    \/ Indexer_deactivateIndex2NameMappingLiveWriting

SpecIndexer == InitIndexer /\ [][NextIndexer]_vars

\* ------------------------------------------- converting a converted file
\* generateIndexedData is called again, with the output file of the finished
\* conversion as its input file (and a new output file).
generateIndexedData_again ==
    /\ pc = "done"
    /\ run = 1
    /\ run' = 2
    /\ inputFile' = outputText
    /\ pc' = "generateIndexedData"
    /\ UNCHANGED <<nargs, inputExists, f, outputText, mappingFile, raised>>
    /\ UNCHANGED indexerVars
    /\ UNCHANGED apiVars
    /\ UNCHANGED batchVars

NextRoundTrip == Next \/ generateIndexedData_again

SpecRoundTrip == Init /\ [][NextRoundTrip]_vars

\* ------------------------------------------------------- batch conversion
\* The batch functions, called one after the other on the input file of a
\* conversion that has ended: loadSVMLightData, convertName2Index on the
\* loaded data, writeSVMLightData on the converted data and the comments.
getIndexedDataItem(self, target, featureValuePairs, info) ==
    LET r == getIndicesForFeatureList(self, featureValuePairs)
    IN [self |-> r.self, raised |-> r.raised, ret |-> <<target, r.ret, info>>]

\* the list comprehension of convertName2Index
RECURSIVE forNamedData(_, _, _)
forNamedData(self, namedData, items) ==
    IF namedData = <<>> THEN [self |-> self, raised |-> "None", ret |-> items]
    ELSE LET r == getIndexedDataItem(self, Head(namedData)[1],
                                     Head(namedData)[2], Head(namedData)[3])
         IN IF r.raised # "None"
            THEN [self |-> r.self, raised |-> r.raised, ret |-> items]
            ELSE forNamedData(r.self, Tail(namedData), Append(items, r.ret))

convertName2Index(namedData) ==
    LET r == forNamedData(Indexer_init, namedData, <<>>)
        known == r.self.knownFeatures
    IN [raised |-> r.raised,
        indexedData |-> r.ret,
        index2string |-> [k \in { i + 1 : i \in 0..(Len(known) - 1) } |-> known[k]]]

RECURSIVE forComments(_, _)
forComments(text, cs) ==
    IF cs = <<>> THEN text
    ELSE forComments(text \o _writeSVMLightData_Comment(Head(cs)), Tail(cs))

RECURSIVE forData(_, _)
forData(text, items) ==
    IF items = <<>> THEN text
    ELSE forData(text \o _writeSVMLightData_DataItem(
                             Head(items)[1], Head(items)[2], Head(items)[3]),
                 Tail(items))

writeSVMLightData_dataFirst(items, cs) == forComments(forData(<<>>, items), cs)

\* the text of the file after writeSVMLightData(filepath, data, comments)
writeSVMLightData(items, cs) == forData(forComments(<<>>, cs), items)

loadSVMLightData_begin ==
    /\ pc \in {"done", "failed"}
    /\ run = 1
    /\ yielded' = <<>>
    /\ data' = <<>>
    /\ comments' = <<>>
    /\ IF ~inputExists
       THEN pc' = "batchFailed" /\ raised' = "IOError" /\ UNCHANGED f
       ELSE pc' = "load" /\ raised' = "None" /\ f' = inputFile
    /\ UNCHANGED <<nargs, inputExists, inputFile, outputText, mappingFile, run>>
    /\ UNCHANGED <<indexedData, index2string, batchText>>
    /\ UNCHANGED indexerVars
    /\ UNCHANGED apiVars

\* one line of the file inside loadSVMLightDataIter, and, when the generator
\* yields for it, one iteration of the for loop of loadSVMLightData
loadSVMLightData_line ==
    /\ pc = "load"
    /\ f # <<>>
    /\ LET raw == readline(f)
           line == strip(raw)
       IN /\ f' = SubSeq(f, Len(raw) + 1, Len(f))
          /\ IF Len(line) = 0
             THEN UNCHANGED <<pc, raised, yielded, data, comments>>
             ELSE LET y == loadSVMLightDataIter_yield(line)
                  IN IF y.raised # "None"
                     THEN /\ pc' = "batchFailed"
                          /\ raised' = y.raised
                          /\ UNCHANGED <<yielded, data, comments>>
                     ELSE /\ yielded' = Append(yielded, <<y.dataitem, y.comment>>)
                          /\ data' = IF y.dataitem # None
                                     THEN Append(data, y.dataitem) ELSE data
                          /\ comments' = IF y.comment # None
                                         THEN Append(comments, y.comment)
                                         ELSE comments
                          /\ UNCHANGED <<pc, raised>>
    /\ UNCHANGED <<nargs, inputExists, inputFile, outputText, mappingFile, run>>
    /\ UNCHANGED <<indexedData, index2string, batchText>>
    /\ UNCHANGED indexerVars
    /\ UNCHANGED apiVars

\* the generator is exhausted: loadSVMLightData returns data, comments
loadSVMLightData_end ==
    /\ pc = "load"
    /\ f = <<>>
    /\ pc' = "loaded"
    /\ UNCHANGED <<nargs, inputExists, inputFile, f, outputText, mappingFile,
                   raised, run>>
    /\ UNCHANGED batchVars
    /\ UNCHANGED indexerVars
    /\ UNCHANGED apiVars

\* indexedData, index2string = convertName2Index(data)
call_convertName2Index ==
    /\ pc = "loaded"
    /\ LET r == convertName2Index(data)
       IN IF r.raised # "None"
          THEN /\ pc' = "batchFailed"
               /\ raised' = r.raised
               /\ UNCHANGED <<indexedData, index2string>>
          ELSE /\ pc' = "converted"
               /\ indexedData' = r.indexedData
               /\ index2string' = r.index2string
               /\ UNCHANGED raised
    /\ UNCHANGED <<nargs, inputExists, inputFile, f, outputText, mappingFile, run>>
    /\ UNCHANGED <<yielded, data, comments, batchText>>
    /\ UNCHANGED indexerVars
    /\ UNCHANGED apiVars

\* writeSVMLightData(filepath, indexedData, comments), or without the third
\* argument: the default None cannot be iterated
call_writeSVMLightData(commentsGiven) ==
    /\ pc = "converted"
    /\ IF commentsGiven
       THEN /\ pc' = "written"
            /\ batchText' = writeSVMLightData(indexedData, comments)
            /\ UNCHANGED raised
       ELSE /\ pc' = "batchFailed"
            /\ raised' = "TypeError"
            /\ batchText' = <<>>
    /\ UNCHANGED <<nargs, inputExists, inputFile, f, outputText, mappingFile, run>>
    /\ UNCHANGED <<yielded, data, comments, indexedData, index2string>>
    /\ UNCHANGED indexerVars
    /\ UNCHANGED apiVars

InitBatch == Init /\ mappingFile = "None"

NextBatch ==
    \/ Next
    \/ loadSVMLightData_begin
    \/ loadSVMLightData_line
    \/ loadSVMLightData_end
    \/ call_convertName2Index
    \/ \E commentsGiven \in BOOLEAN : call_writeSVMLightData(commentsGiven)

SpecBatch == InitBatch /\ [][NextBatch]_vars

\* ======================================================================
\* Properties
\* ======================================================================

\* ---- vocabulary of the properties
Range(s) == { s[i] : i \in 1..Len(s) }

RECURSIVE SelectNonQid(_)
SelectNonQid(names) ==
    IF names = <<>> THEN <<>>
    ELSE IF Head(names) = qid THEN SelectNonQid(Tail(names))
    ELSE <<Head(names)>> \o SelectNonQid(Tail(names))

\* the elements of s in order of first occurrence
RECURSIVE Distinct(_)
Distinct(s) ==
    IF s = <<>> THEN <<>>
    ELSE LET d == Distinct(SubSeq(s, 1, Len(s) - 1))
         IN IF s[Len(s)] \in Range(d) THEN d ELSE Append(d, s[Len(s)])

HasRepeat(s) == \E i, j \in 1..Len(s) : i < j /\ s[i] = s[j]

\* the names of a record that are looked up: all of them, or those up to
\* and including the first repeated one
UpToRepeat(names) ==
    IF ~HasRepeat(names) THEN names
    ELSE SubSeq(names, 1,
                CHOOSE j \in 1..Len(names) :
                    /\ HasRepeat(SubSeq(names, 1, j))
                    /\ ~HasRepeat(SubSeq(names, 1, j - 1)))

NamesOf(pairs) == [i \in 1..Len(pairs) |-> pairs[i][1]]

\* the text cut into lines, each with its newline
RECURSIVE LinesOf(_)
LinesOf(text) ==
    IF text = <<>> THEN <<>>
    ELSE LET l == readline(text)
         IN <<l>> \o LinesOf(SubSeq(text, Len(l) + 1, Len(text)))

RECURSIVE NonBlank(_)
NonBlank(ls) ==
    IF ls = <<>> THEN <<>>
    ELSE IF strip(Head(ls)) = <<>> THEN NonBlank(Tail(ls))
    ELSE <<strip(Head(ls))>> \o NonBlank(Tail(ls))

InRun == pc \in {"loop", "done", "failed"} /\ raised \notin {"IOError", "IndexError"}

\* the trimmed non-blank lines the loop has taken from the input so far
Consumed ==
    IF InRun
    THEN NonBlank(LinesOf(SubSeq(inputFile, 1, Len(inputFile) - Len(f))))
    ELSE <<>>

IsComment(line) == startswith(line, "#")

\* the feature names the loop has met in the consumed lines, in reading order
RECURSIVE NamesMet(_)
NamesMet(ls) ==
    IF ls = <<>> THEN <<>>
    ELSE LET item == _parseDataLine(Head(ls))
             here == IF IsComment(Head(ls)) \/ item.raised # "None" THEN <<>>
                     ELSE UpToRepeat(NamesOf(item.features))
         IN here \o NamesMet(Tail(ls))

\* ---- C1
\* C1: after any sequence of getIndex4Feature / getIndicesForFeatureList
\* calls on a fresh Indexer the assigned indices are exactly 1..K, K the
\* number of distinct non-qid names asked for so far; every index is held by
\* one name, every name has one index, and nextIndex = K + 1.
C1_DenseUniqueIndices ==
    LET asked == { n \in Range(seen) : n # qid }
        K == Cardinality(asked)
    IN /\ DOMAIN string2index = asked
       /\ { string2index[n] : n \in DOMAIN string2index } = 1..K
       /\ \A n, m \in DOMAIN string2index :
              string2index[n] = string2index[m] => n = m
       /\ Len(knownFeatures) = K
       /\ \A i \in 1..K : string2index[knownFeatures[i]] = i
       /\ nextIndex = K + 1

\* both names hold an index, qid was asked for too, and the last call was a
\* list with a known name in it
C1_Witness ==
    /\ pc = "api"
    /\ nextIndex = 3
    /\ Len(seen) = 3
    /\ lastCall.op = "getIndicesForFeatureList"
    /\ Len(lastCall.pairs) = 2
    /\ raised = "None"
    /\ retList[1][1] = IntRef(1)

\* ---- C2
\* C2: the name that holds index i is the i-th distinct non-qid feature name
\* met when the data lines are read top to bottom and the tokens of a line
\* left to right.
C2_FirstOccurrenceOrder ==
    InRun =>
        LET d == Distinct(SelectNonQid(NamesMet(Consumed)))
        IN /\ DOMAIN string2index = Range(d)
           /\ \A i \in 1..Len(d) : string2index[d[i]] = i
           /\ knownFeatures = d

\* b was met before a, with a qid between them: b holds 1 and a holds 2
C2_Witness ==
    /\ pc = "done"
    /\ NamesMet(Consumed) = << <<"b">>, qid, <<"a">> >>
    /\ string2index[<<"b">>] = 1
    /\ string2index[<<"a">>] = 2

\* ---- C3
\* the feature names of the records in the output file, record by record
RECURSIVE OutputRecords(_)
OutputRecords(ls) ==
    IF ls = <<>> THEN <<>>
    ELSE IF IsComment(Head(ls)) THEN OutputRecords(Tail(ls))
    ELSE <<NamesOf(_parseDataLine(Head(ls)).features)>> \o OutputRecords(Tail(ls))

IsNumber(name) == name # <<>> /\ \A i \in 1..Len(name) : name[i] \in Range(Digits)

RECURSIVE ParseInt(_)
ParseInt(name) ==
    IF name = <<>> THEN 0
    ELSE 10 * ParseInt(SubSeq(name, 1, Len(name) - 1))
         + ((CHOOSE k \in 1..10 : Digits[k] = name[Len(name)]) - 1)

\* a precedes-or-equals b when qid sorts before every index
LeqQidFirst(a, b) ==
    \/ a = qid
    \/ a # qid /\ b # qid /\ ParseInt(a) <= ParseInt(b)

\* a precedes-or-equals b when qid sorts after every index
LeqQidLast(a, b) ==
    \/ b = qid
    \/ a # qid /\ b # qid /\ ParseInt(a) <= ParseInt(b)

OutputFeaturesWellFormed ==
    \A r \in Range(OutputRecords(NonBlank(LinesOf(outputText)))) :
        \A i \in 1..Len(r) : r[i] = qid \/ IsNumber(r[i])

\* C3 (as stated): in every output record the entries are non-decreasing
\* under the order in which qid sorts before every integer index.
C3_QidFirst ==
    \A r \in Range(OutputRecords(NonBlank(LinesOf(outputText)))) :
        \A i, j \in 1..Len(r) : i < j => LeqQidFirst(r[i], r[j])

\* C3 amended: in every output record the entries are integer indices or
\* qid, non-decreasing under the order in which qid sorts after every
\* integer index: the indices ascend and a qid entry is written last.
C3_QidLast ==
    /\ OutputFeaturesWellFormed
    /\ \A r \in Range(OutputRecords(NonBlank(LinesOf(outputText)))) :
           \A i, j \in 1..Len(r) : i < j => LeqQidLast(r[i], r[j])

\* a record whose input had b before a (indices 2, 1) and one with qid first
C3_Witness ==
    /\ pc = "done"
    /\ \E r \in Range(OutputRecords(NonBlank(LinesOf(outputText)))) :
           Len(r) = 2 /\ r[2] = qid
    /\ \E k \in 1..Len(Consumed) :
           /\ ~IsComment(Consumed[k])
           /\ NamesOf(_parseDataLine(Consumed[k]).features) = <<qid, <<"a">>>>

\* ---- C4
OutLines == LinesOf(outputText)

DuplicateError == "ValueError: Duplicate feature"
UnpackError == "ValueError: too many values to unpack"

\* how many of the consumed lines the loop has finished
Finished ==
    IF pc = "failed" /\ raised \in {DuplicateError, UnpackError}
    THEN Len(Consumed) - 1 ELSE Len(Consumed)

IsData(line) == ~IsComment(line)

RefFor(name) == IF name = qid THEN StrRef(qid) ELSE IntRef(string2index[name])

\* the record of a data line under the table string2index, with infoText
\* in the place of the info
ConvertedRecord(line, infoText) ==
    LET item == _parseDataLine(line)
        indexed == [i \in 1..Len(item.features) |->
                       <<RefFor(item.features[i][1]), item.features[i][2]>>]
    IN item.target \o <<" ">> \o join(<<" ">>, featureTexts(sort(indexed)))
           \o <<" ">> \o infoText \o <<"\n">>

\* C4: for a data line without '#' the written line is the target, a space,
\* the pairs joined by spaces, a space, an empty info and a newline; nothing
\* is written in the place of the absent info.
C4_EmptyInfoWhenAbsent ==
    InRun =>
        \A k \in 1..Finished :
            (k <= Len(OutLines) /\ IsData(Consumed[k]) /\ ~In("#", Consumed[k]))
                => OutLines[k] = ConvertedRecord(Consumed[k], <<>>)

\* ---- C5
\* C5: a run that was given a mapping file has closed the live mapping
\* writer (mappingWriter is None again) when it ends, normally or by an error.
C5_WriterClosedOnEveryExit ==
    (pc \in {"done", "failed"} /\ mappingFile # "None") => mappingWriter = "None"

\* ---- C6
\* C6: when a record holds the same feature name twice (two qid entries
\* included) the duplicate-feature error is raised and the run stops: the
\* output holds the lines of the earlier records and comments, no line for
\* that record, and nothing is written afterwards.
RecordHasRepeat(line) ==
    /\ IsData(line)
    /\ _parseDataLine(line).raised = "None"
    /\ HasRepeat(NamesOf(_parseDataLine(line).features))

C6_DuplicateAborts ==
    InRun =>
        /\ \A k \in 1..Len(Consumed) :
               RecordHasRepeat(Consumed[k]) =>
                   /\ k = Len(Consumed)
                   /\ pc = "failed"
                   /\ raised = DuplicateError
                   /\ Len(OutLines) = k - 1
                   /\ \A j \in 1..(k - 1) :
                          OutLines[j] =
                              IF IsComment(Consumed[j])
                              THEN Consumed[j] \o <<"\n">>
                              ELSE ConvertedRecord(
                                       Consumed[j],
                                       format(_parseDataLine(Consumed[j]).info))
        /\ (raised = DuplicateError) =>
               /\ RecordHasRepeat(Consumed[Len(Consumed)])
               /\ ~ENABLED generateIndexedData_line
               /\ ~ENABLED generateIndexedData_end

\* a line was written, then a record with two qid entries ended the run
C6_Witness ==
    /\ pc = "failed"
    /\ raised = DuplicateError
    /\ Len(OutLines) = 1
    /\ NamesOf(_parseDataLine(Consumed[Len(Consumed)]).features) = <<qid, qid>>

\* ---- C7
\* the names in the lines 'index name' of a mapping file
MappingNames(text) ==
    { split1(strip(l), " ")[2] : l \in Range(LinesOf(text)) }

QidNotInterned ==
    /\ qid \notin DOMAIN string2index
    /\ qid \notin Range(knownFeatures)
    /\ qid \notin MappingNames(mappingText)
    /\ qid \notin MappingNames(savedMapping)

\* C7: qid is never a key of string2index nor an element of knownFeatures,
\* is in no line of the live or of the saved mapping, a lookup of qid leaves
\* nextIndex as it was and returns the token qid, and a record keeps its
\* qid entry as the token qid.
C7_QidPassthrough ==
    [][ /\ QidNotInterned'
        /\ (lastCall'.op = "getIndex4Feature" /\ lastCall'.name = qid)
               => (nextIndex' = nextIndex /\ retIndex' = StrRef(qid))
        /\ (lastCall'.op = "getIndicesForFeatureList" /\ raised' = "None")
               => /\ \A i \in 1..Len(lastCall'.pairs) :
                         lastCall'.pairs[i][1] = qid
                             => <<StrRef(qid), lastCall'.pairs[i][2]>> \in Range(retList')
                  /\ nextIndex' - nextIndex =
                         Cardinality({ n \in Range(NamesOf(lastCall'.pairs)) :
                                          n # qid /\ n \notin DOMAIN string2index })
      ]_vars

\* live mapping is on, b was interned, the mapping was saved, and then a
\* record with qid and the new name a was converted
C7_Witness ==
    /\ pc = "api"
    /\ lastCall.op = "getIndicesForFeatureList"
    /\ lastCall.pairs = << <<qid, <<"5">>>>, <<<<"a">>, <<"5">>>> >>
    /\ mappingWriter = "open"
    /\ mappingText = <<"1", " ", "b", "\n", "2", " ", "a", "\n">>
    /\ savedMapping = <<"1", " ", "b", "\n">>
    /\ retList = << <<IntRef(2), <<"5">>>>, <<StrRef(qid), <<"5">>>> >>

\* ---- C8
\* C8: the output of the streaming conversion has one line per non-blank
\* input line the loop has finished, in the same order: the trimmed comment
\* for a comment line, the converted record for a data line, nothing for a
\* blank line; a finished run has finished every line of the input.
C8_OutputMirrorsInput ==
    InRun =>
        /\ Len(OutLines) = Finished
        /\ \A k \in 1..Finished :
               /\ IsComment(Consumed[k]) <=> IsComment(OutLines[k])
               /\ IsComment(Consumed[k]) => OutLines[k] = Consumed[k] \o <<"\n">>
               /\ IsData(Consumed[k]) =>
                      OutLines[k] = ConvertedRecord(
                                        Consumed[k],
                                        format(_parseDataLine(Consumed[k]).info))
        /\ pc = "done" => Consumed = NonBlank(LinesOf(inputFile))

\* a comment in spaces after a record, with a blank line in the input
C8_Witness ==
    /\ pc = "done"
    /\ Len(OutLines) = 2
    /\ IsData(OutLines[1])
    /\ OutLines[2] = <<"#", "c", "\n">>
    /\ \E l \in Range(LinesOf(inputFile)) : l = <<" ", "#", "c", " ", "\n">>

\* ---- C9
\* C9: converting the output file of a conversion again writes an output
\* file identical to it, character for character, and gives every name "i"
\* the index i.
C9_ReconversionIdentity ==
    run = 2 =>
        /\ pc # "failed"
        /\ pc = "done" =>
               /\ outputText = inputFile
               /\ \A name \in DOMAIN string2index :
                      IsNumber(name) /\ str(string2index[name]) = name

\* the reconverted file has a comment and a record with two indices in it
C9_Witness ==
    /\ run = 2
    /\ pc = "done"
    /\ nextIndex = 3
    /\ \E k \in 1..Len(OutLines) : IsComment(OutLines[k])
    /\ \E r \in Range(OutputRecords(NonBlank(OutLines))) : Len(r) = 2

\* ---- C10
\* C10: main prints the usage message and converts nothing when the number
\* of positional arguments is below 2 or above 3, and attempts the
\* conversion exactly when it is 2 or 3.
C10_UsageOutsideTwoOrThree ==
    pc # "main" =>
        /\ (nargs < 2 \/ nargs > 3) <=> pc = "usage"
        /\ (nargs \in 2..3) <=>
               (pc \in {"generateIndexedData", "loop", "done", "failed"}
                   /\ raised # "IndexError")

\* C11: when batch mode (loadSVMLightData, convertName2Index,
\* writeSVMLightData with the loaded comments) has written its file, the file
\* holds all comment lines of the input first, in their original order,
\* then all converted records in their original order, whatever their
\* interleaving in the input; the records and the index-to-name table are
\* those the streaming conversion of the same input produced.
C11_BatchCommentsThenData ==
    pc = "written" =>
        LET inLines == NonBlank(LinesOf(inputFile))
            inComments == SelectSeq(inLines, IsComment)
        IN /\ Len(OutLines) = Len(inLines)
           /\ LinesOf(batchText) =
                  SelectSeq(OutLines, IsComment) \o SelectSeq(OutLines, IsData)
           /\ SelectSeq(OutLines, IsComment) =
                  [i \in 1..Len(inComments) |-> inComments[i] \o <<"\n">>]
           /\ DOMAIN index2string = 1..(nextIndex - 1)
           /\ \A i \in DOMAIN index2string : index2string[i] = knownFeatures[i]

\* batch mode has written a file that differs from the streaming output: a
\* record stood before a comment
C11_Witness ==
    /\ pc = "written"
    /\ batchText # outputText
    /\ nextIndex > 1
    /\ comments # <<>>

\* ---- C12
\* the position of the first '#' of a line that has one
FirstHash(line) ==
    CHOOSE i \in 1..Len(line) :
        line[i] = "#" /\ \A j \in 1..(i - 1) : line[j] # "#"

\* C12: every data line with one or more '#' the loop has taken is parsed
\* without an error, its info is the text from the first '#' to the end of
\* the line and its target and features come from the text before the first
\* '#'; a data line without '#' has no info.
C12_InfoFromFirstHash ==
    InRun =>
        \A k \in 1..Len(Consumed) :
            IsData(Consumed[k]) =>
                LET line == Consumed[k]
                    item == _parseDataLine(line)
                IN IF In("#", line)
                   THEN LET before == SubSeq(line, 1, FirstHash(line) - 1)
                            elems == split(before, " ")
                        IN /\ ~(k = Len(Consumed) /\ pc = "failed"
                                  /\ raised = UnpackError)
                           /\ item.raised = "None"
                           /\ item.info = SubSeq(line, FirstHash(line), Len(line))
                           /\ item.target = elems[1]
                           /\ item.features = featuresOf(Tail(elems))
                   ELSE item.raised = "None" /\ item.info = None

\* ---- C13
\* the lines 'i name' for the first n names of the table, ascending
RECURSIVE MappingLines(_)
MappingLines(n) ==
    IF n = 0 THEN <<>>
    ELSE MappingLines(n - 1) \o str(n) \o <<" ">> \o knownFeatures[n] \o <<"\n">>

\* C13: while live mapping is active, after every Indexer call the mapping
\* file holds exactly the lines 'i name' for i = 1..nextIndex-1, each once,
\* in ascending order: the names interned before the activation were
\* written at the activation, every later name in the call that interned
\* it, and nothing for a known name or qid.
C13_LiveMappingComplete ==
    [][ /\ mappingWriter' = "open" => mappingText' = MappingLines(nextIndex - 1)'
        /\ (mappingWriter = "open" /\ mappingWriter' = "open"
              /\ lastCall'.op \in {"getIndex4Feature", "getIndicesForFeatureList"})
               => mappingText' = mappingText \o
                      SubSeq(MappingLines(nextIndex - 1)', Len(mappingText) + 1,
                             Len(MappingLines(nextIndex - 1)'))
        /\ (mappingWriter = "open" /\ lastCall'.op = "getIndex4Feature"
              /\ (lastCall'.name = qid \/ lastCall'.name \in DOMAIN string2index))
               => mappingText' = mappingText
      ]_vars

\* live mapping is active, b and then a were interned, the file holds their
\* two lines, and the last call was a lookup of the known name a
C13_Witness ==
    /\ pc = "api"
    /\ mappingWriter = "open"
    /\ seen = << <<"b">>, <<"a">> >>
    /\ lastCall.op = "getIndex4Feature"
    /\ lastCall.name = <<"a">>
    /\ mappingText = <<"1", " ", "b", "\n", "2", " ", "a", "\n">>

\* ---- C14
\* C14: the interning table only grows: across every Indexer call, one that
\* ends in the duplicate-feature error included, every name of string2index
\* keeps its index, knownFeatures keeps its elements at their positions,
\* and nextIndex does not decrease.
C14_TableOnlyGrows ==
    [][ /\ \A n \in DOMAIN string2index :
               n \in DOMAIN string2index' /\ string2index'[n] = string2index[n]
        /\ Len(knownFeatures') >= Len(knownFeatures)
        /\ \A i \in 1..Len(knownFeatures) : knownFeatures'[i] = knownFeatures[i]
        /\ nextIndex' >= nextIndex
      ]_vars

\* b had index 1, then a record that holds the new name a twice ended in
\* the duplicate-feature error and left a interned with index 2
C14_Witness ==
    /\ pc = "api"
    /\ lastCall.op = "getIndicesForFeatureList"
    /\ NamesOf(lastCall.pairs) = << <<"a">>, <<"a">> >>
    /\ raised = DuplicateError
    /\ seen = << <<"b">>, <<"a">> >>
    /\ nextIndex = 3
    /\ string2index[<<"b">>] = 1

\* ---- C15
\* C15: a call of getIndex4Feature with qid or with a known name leaves
\* knownFeatures, string2index and nextIndex as they were, writes nothing to
\* the mapping file and returns the token qid, or the index the name was
\* given first; a call with a new name other than qid is the only one that
\* changes the table, and it advances nextIndex by exactly 1.
C15_LookupFrame ==
    [][ lastCall'.op = "getIndex4Feature" =>
          IF lastCall'.name = qid \/ lastCall'.name \in DOMAIN string2index
          THEN /\ UNCHANGED <<knownFeatures, string2index, nextIndex>>
               /\ UNCHANGED <<mappingWriter, mappingText>>
               /\ retIndex' = IF lastCall'.name = qid
                              THEN StrRef(qid)
                              ELSE IntRef(string2index[lastCall'.name])
               /\ lastCall'.name # qid => knownFeatures[retIndex'.n] = lastCall'.name
          ELSE /\ nextIndex' = nextIndex + 1
               /\ retIndex' = IntRef(nextIndex)
               /\ knownFeatures' = Append(knownFeatures, lastCall'.name)
               /\ DOMAIN string2index' = DOMAIN string2index \cup {lastCall'.name}
               /\ string2index'[lastCall'.name] = nextIndex
      ]_vars

\* with live mapping active and two names interned, the name interned first
\* was looked up again and index 1 came back
C15_Witness ==
    /\ pc = "api"
    /\ lastCall.op = "getIndex4Feature"
    /\ lastCall.name = <<"b">>
    /\ seen = << <<"b">>, <<"a">> >>
    /\ retIndex = IntRef(1)
    /\ nextIndex = 3
    /\ mappingWriter = "open"

\* ---- C16
HasColon(token) == In(":", token)

\* the data lines of the input file, trimmed, in order
InputDataLines == SelectSeq(NonBlank(LinesOf(inputFile)), IsData)

\* the text of a data line in front of its info
BeforeInfo(line) ==
    IF In("#", line) THEN SubSeq(line, 1, FirstHash(line) - 1) ELSE line

\* tokens are the pieces of text between its single spaces
IsTokensOf(tokens, text) ==
    /\ tokens # <<>>
    /\ join(<<" ">>, tokens) = text
    /\ \A i \in 1..Len(tokens) : ~In(" ", tokens[i])

\* C16: every item loadSVMLightData has loaded has the first
\* space-separated token of its line as target and one pair for every later
\* token that holds a ':', in token order: the text before the token's
\* first ':' and the text after it, kept verbatim; later tokens without ':'
\* (empty ones from repeated spaces included) are dropped without an error.
C16_TokensToPairs ==
    /\ Len(data) <= Len(InputDataLines)
    /\ pc \in {"loaded", "converted", "written"} => Len(data) = Len(InputDataLines)
    /\ \A k \in 1..Len(data) :
           LET tokens == split(BeforeInfo(InputDataLines[k]), " ")
               kept == SelectSeq(Tail(tokens), HasColon)
               features == data[k][2]
           IN /\ IsTokensOf(tokens, BeforeInfo(InputDataLines[k]))
              /\ data[k][1] = tokens[1]
              /\ Len(features) = Len(kept)
              /\ \A j \in 1..Len(kept) :
                     /\ Len(features[j]) = 2
                     /\ ~In(":", features[j][1])
                     /\ features[j][1] \o <<":">> \o features[j][2] = kept[j]

\* the line '2 z  a:5:5 ' was loaded: the token z and the empty token are
\* dropped and the value 5:5 is kept whole
C16_Witness ==
    /\ pc = "loaded"
    /\ Len(data) >= 1
    /\ data[1] = << <<"2">>, << << <<"a">>, <<"5", ":", "5">> >> >>, None >>
    /\ strip(readline(inputFile)) = <<"2", " ", "z", " ", " ", "a", ":", "5", ":", "5">>

\* ---- C17
\* loadSVMLightData is reading, or has read, the input file
Loading ==
    /\ pc \in {"load", "loaded", "converted", "written", "batchFailed"}
    /\ raised # "IOError"

\* the trimmed non-blank lines loadSVMLightDataIter has taken from the file
Taken ==
    LET all == NonBlank(LinesOf(inputFile))
    IN SubSeq(all, 1, Len(all) - Len(NonBlank(LinesOf(f))))

\* C17: loadSVMLightDataIter has yielded one element for every non-blank
\* line it has taken, in input order; each element has exactly one of data
\* item and comment set and the other None: the trimmed line as comment for
\* a line that starts with '#', the parsed data item otherwise; a blank line
\* yields nothing.
C17_OneElementPerLine ==
    Loading =>
        /\ Len(yielded) = Len(Taken)
        /\ \A k \in 1..Len(yielded) :
               /\ Len(yielded[k]) = 2
               /\ (yielded[k][1] = None) # (yielded[k][2] = None)
               /\ IF startswith(Taken[k], "#")
                  THEN yielded[k][2] = Taken[k]
                  ELSE LET item == _parseDataLine(Taken[k])
                       IN yielded[k][1] = <<item.target, item.features, item.info>>

\* ---- C18
\* the names of the record the loop has taken last
LastNames == NamesOf(_parseDataLine(Consumed[Len(Consumed)]).features)

\* the names met in the lines before the last one
EarlierNames == Range(NamesMet(SubSeq(Consumed, 1, Len(Consumed) - 1)))

\* C18: when a record has ended the run with the duplicate-feature error,
\* the Indexer is not rolled back: every name of the record up to the second
\* occurrence of the repeated name is interned and, with a mapping file, has
\* its line there; a name that stands only after the repetition is not
\* interned and has no line; the record itself is not in the output.
C18_NoRollback ==
    (InRun /\ pc = "failed" /\ raised = DuplicateError) =>
        LET upto == UpToRepeat(LastNames)
            after == SubSeq(LastNames, Len(upto) + 1, Len(LastNames))
        IN /\ \A n \in Range(upto) \ {qid} :
                  /\ n \in DOMAIN string2index
                  /\ n \in Range(knownFeatures)
                  /\ mappingFile # "None" => n \in MappingNames(mappingText)
           /\ \A n \in Range(after) \ (Range(upto) \cup EarlierNames) :
                  /\ n \notin DOMAIN string2index
                  /\ n \notin Range(knownFeatures)
                  /\ n \notin MappingNames(mappingText)
           /\ Len(OutLines) = Len(Consumed) - 1

\* the record 'a a b' ended the run: the mapping file holds the line of a,
\* b has no index, and the output holds no record
C18_Witness ==
    /\ pc = "failed"
    /\ raised = DuplicateError
    /\ LastNames = << <<"a">>, <<"a">>, <<"b">> >>
    /\ mappingText = <<"1", " ", "a", "\n">>
    /\ <<"b">> \notin DOMAIN string2index
    /\ OutputRecords(NonBlank(OutLines)) = <<>>

\* ---- C19
\* C19: in a streaming run with a mapping file, at every point, the end of
\* a run that an error has stopped included, every integer index of every
\* record in the output written so far has its line 'index name' in the
\* mapping file written so far: the line of a feature is written before the
\* record that uses its index.
C19_MappingBeforeOutput ==
    (InRun /\ mappingFile # "None") =>
        \A r \in Range(OutputRecords(NonBlank(OutLines))) :
            \A i \in 1..Len(r) :
                r[i] # qid =>
                    /\ IsNumber(r[i])
                    /\ ParseInt(r[i]) \in 1..Len(knownFeatures)
                    /\ r[i] \o <<" ">> \o knownFeatures[ParseInt(r[i])] \o <<"\n">>
                           \in Range(LinesOf(mappingText))

\* a record with index 1 is in the output, the next record interned a and
\* ended the run with the duplicate-feature error: the mapping file holds
\* both lines, the output the one record
C19_Witness ==
    /\ pc = "failed"
    /\ raised = DuplicateError
    /\ mappingFile # "None"
    /\ OutputRecords(NonBlank(OutLines)) = << << <<"1">> >> >>
    /\ mappingText = <<"1", " ", "b", "\n", "2", " ", "a", "\n">>
====
